---- MODULE Spec2Model ----
(***************************************************************************)
(* Withdrawal engine of gold_crowdsale_backend:                            *)
(* gold_crowdsale/withdrawals/models.py.  The three tables                  *)
(* (WithdrawCycle, WithdrawTransaction, TransactionManager) are sequences   *)
(* of rows, a row's id being its index.  Every method of the models is an  *)
(* operator from the tables (and the answers of the chain gateway) to the  *)
(* tables after the call; every action applies one method.                 *)
(***************************************************************************)
EXTENDS Integers, Sequences, FiniteSets, TLC

VARIABLES
    purchases,  \* ids of the TokenPurchase rows (the accounts)
    cycles,     \* WithdrawCycle table
    txs,        \* WithdrawTransaction table
    managers,   \* TransactionManager table
    now,        \* timezone.now(), in hours
    builder,    \* position of a create_withdraw_cycle call that is under way
    call,       \* the last create_withdraw_cycle call: its argument and outcome
    workers,    \* position of each driver worker inside a process_selector call
    broadcasts  \* per transaction, the broadcasts the network has accepted

vars == <<purchases, cycles, txs, managers, now, builder, call, workers,
          broadcasts>>

---------------------------------------------------------------------------
(* Bounds of the model *)

MaxAccounts == 2
MaxCycles == 2
MaxBuilderCycles == 2
MaxTxs == 4
MaxLen == 3
MaxTime == 3
MaxWorkers == 2

---------------------------------------------------------------------------
(* Constants of the program *)

Null == -1

ERC20_CURRENCIES == {"USDT", "USDC"}
NATIVE_CURRENCIES == {"ETH", "BTC"}
AVAILABLE_CURRENCIES == NATIVE_CURRENCIES \cup ERC20_CURRENCIES

\* a code that is not in the supported list
UnsupportedCodes == {"XRP"}
Codes == AVAILABLE_CURRENCIES \cup UnsupportedCodes

CYCLE_CREATED == "created"
CYCLE_PENDING == "pending"
CYCLE_COMPLETED == "completed"

CREATED == "created"
PENDING == "pending"
WAITING_FOR_ERC20_TRANSFERS == "waiting_for_erc20_transfers"
WAITING_FOR_GAS_REFILL == "waiting_for_gas_refill"
COMPLETED == "completed"
SKIPPED == "skipped"
FAILED == "failed"
SENT_TX_NOT_FOUND == "sent_tx_not_found"
ERC20_BALANCE_TOO_LOW == "erc20_balance_too_low"

NATIVE == "native"
ERC20 == "erc20"
GAS_REFILL == "gas_refill"

QUEUE_ERC20 == "erc20"
QUEUE_GAS_REFILL == "gas_refill"

---------------------------------------------------------------------------
(* Helpers on sequences *)

Indices(s) == 1..Len(s)

Min(S) == CHOOSE x \in S : \A y \in S : x <= y

\* the order of Python's string comparison on the currency codes
CodeRank(c) ==
    CASE c = "BTC" -> 1
      [] c = "ETH" -> 2
      [] c = "USDC" -> 3
      [] c = "USDT" -> 4
      [] OTHER -> 5

RECURSIVE SortCodes(_)
\* list.sort() of a list without duplicates
SortCodes(S) ==
    IF S = {} THEN <<>>
    ELSE LET c == CHOOSE x \in S : \A y \in S : CodeRank(x) <= CodeRank(y)
         IN  <<c>> \o SortCodes(S \ {c})

SeqRange(s) == {s[i] : i \in Indices(s)}

---------------------------------------------------------------------------
(* create_withdraw_cycle *)

\* lines 27-39: the currencies a call works with, or the way the call ends
\* before a cycle is written.  arg.kind is "none" (no argument), "list" or
\* "other" (an argument that is not a list).
NormalizeCurrencies(arg) ==
    IF arg.kind = "none" \/ (arg.kind = "list" /\ arg.items = <<>>)
    THEN [outcome |-> "ok", currencies |-> SortCodes(AVAILABLE_CURRENCIES)]
    ELSE IF arg.kind # "list"
    THEN [outcome |-> "not_a_list", currencies |-> <<>>]
    ELSE IF \E c \in SeqRange(arg.items) : c \notin AVAILABLE_CURRENCIES
    \* currencies.pop(currency) with a str argument raises TypeError
    THEN [outcome |-> "TypeError", currencies |-> <<>>]
    ELSE [outcome |-> "ok", currencies |-> SortCodes(SeqRange(arg.items))]

NewTx(cyc, account, currency, status, tx_type, gas_tx_count) ==
    [withdraw_cycle |-> cyc, account |-> account, amount |-> Null,
     currency |-> currency, status |-> status, tx_type |-> tx_type,
     tx_hash |-> Null, gas_tx_count |-> gas_tx_count,
     gas_price_erc20 |-> Null, error_message |-> "", relayed_at |-> Null]

NewManager(cyc, account, queue_type) ==
    [withdraw_cycle |-> cyc, account |-> account, tx_to_process |-> Null,
     queue_type |-> queue_type, completed |-> FALSE]

\* mutant: the lookup does not name the account
GasTxLookupAnyAccount(T, cyc, account) ==
    {i \in Indices(T) : /\ T[i].withdraw_cycle = cyc
                        /\ T[i].currency = "ETH"
                        /\ T[i].gas_tx_count = 1
                        /\ T[i].tx_type = GAS_REFILL}

\* the lookup of get_or_create at lines 60-66
GasTxLookup(T, cyc, account) ==
    {i \in Indices(T) : /\ T[i].withdraw_cycle = cyc
                        /\ T[i].account = account
                        /\ T[i].currency = "ETH"
                        /\ T[i].gas_tx_count = 1
                        /\ T[i].tx_type = GAS_REFILL}

\* lines 60-71: the gas refill of the account is created, or its counter raised
EnsureGasTx(T, cyc, account) ==
    LET found == GasTxLookup(T, cyc, account)
    IN  IF found = {}
        THEN Append(T, NewTx(cyc, account, "ETH", CREATED, GAS_REFILL, 1))
        ELSE LET i == CHOOSE x \in found : TRUE
             IN  [T EXCEPT ![i].gas_tx_count = @ + 1]

\* lines 76-80 and 83-86: get_or_create of a queue entry; the lookup of the
\* global gas refill queue names no account
EnsureManager(M, cyc, account, queue_type) ==
    IF \E i \in Indices(M) : /\ M[i].withdraw_cycle = cyc
                             /\ M[i].queue_type = queue_type
                             /\ (queue_type = QUEUE_ERC20 => M[i].account = account)
    THEN M
    ELSE Append(M, NewManager(cyc, account, queue_type))

\* mutant: the sweep does not start behind the token withdrawals
InitialStatusSweepCreated(currency) ==
    IF currency \in ERC20_CURRENCIES THEN WAITING_FOR_GAS_REFILL ELSE CREATED

\* lines 50-57, 73: the status a withdrawal starts in
InitialStatus(currency) ==
    IF currency = "ETH" THEN WAITING_FOR_ERC20_TRANSFERS
    ELSE IF currency \in ERC20_CURRENCIES THEN WAITING_FOR_GAS_REFILL
    ELSE CREATED

\* lines 88-91
MainTxType(currency) ==
    IF currency \in NATIVE_CURRENCIES THEN NATIVE ELSE ERC20

\* lines 49-99: one turn of the inner loop, on the tables db
BuildPair(db, cyc, account, currency, currencies) ==
    IF currency = "ETH"
       /\ {x \in SeqRange(currencies) : x \notin NATIVE_CURRENCIES} = {}
    THEN db
    ELSE LET isToken == currency \in ERC20_CURRENCIES
             T1 == IF isToken THEN EnsureGasTx(db.txs, cyc, account) ELSE db.txs
             M1 == IF isToken
                   THEN EnsureManager(
                            EnsureManager(db.managers, cyc, account, QUEUE_ERC20),
                            cyc, Null, QUEUE_GAS_REFILL)
                   ELSE db.managers
         IN  [db EXCEPT
                !.txs = Append(T1, NewTx(cyc, account, currency,
                                         InitialStatus(currency),
                                         MainTxType(currency), Null)),
                !.managers = M1]

\* the (account, currency) pairs in the order of the loops at lines 48-49
RECURSIVE Pairs(_, _)
Pairs(accounts, currencies) ==
    IF accounts = {} THEN <<>>
    ELSE LET a == Min(accounts)
         IN  [i \in Indices(currencies) |-> <<a, currencies[i]>>]
                 \o Pairs(accounts \ {a}, currencies)

RECURSIVE BuildFrom(_, _, _, _, _)
BuildFrom(db, cyc, pairs, currencies, k) ==
    IF k > Len(pairs) THEN db
    ELSE BuildFrom(BuildPair(db, cyc, pairs[k][1], pairs[k][2], currencies),
                   cyc, pairs, currencies, k + 1)

\* lines 40-44: the cycle row is written with status CREATED
OpenCycle(db, currencies) ==
    [db EXCEPT !.cycles = Append(@, [currencies |-> currencies,
                                    status |-> CYCLE_CREATED])]

\* lines 101-102
CloseCycle(db, cyc) ==
    [db EXCEPT !.cycles[cyc].status = CYCLE_PENDING]

\* the whole of create_withdraw_cycle, run without interruption
CreateWithdrawCycle(db, accounts, arg) ==
    LET n == NormalizeCurrencies(arg)
        cyc == Len(db.cycles) + 1
    IN  IF n.outcome # "ok" THEN db
        ELSE CloseCycle(
                 BuildFrom(OpenCycle(db, n.currencies), cyc,
                           Pairs(accounts, n.currencies), n.currencies, 1),
                 cyc)

DB == [cycles |-> cycles, txs |-> txs, managers |-> managers]

---------------------------------------------------------------------------
(* Answers of the chain gateway and of the rate provider to one call *)

refill_gas_limit == 21000
base_erc20_gas_limit == 200000
eth_sweep_gas_limit == 21000
ETH_STALL_HOURS == 2
BTC_STALL_HOURS == 3
BTC_MIN_CONFIRMATIONS == 3

GasPrices == {1}
RelayFees == {1000}
BtcValues == {0, 1000, 5000}
TokenBalances == {210500}
TokenRates == {1, 2}
EthBalances == {0, 21000, 1000000}
RpcErrors == {"none", "gasPrice", "balanceOf", "getBalance", "getTransactionCount"}
Receipts == {"not_found", "reverted", "ok"}
Confirmations == {0, 3, 4}

\* the hash the node returns for the broadcast of transaction id
HashOf(id) == id

DefaultAnswer ==
    [utxo_ok |-> TRUE, utxo_value |-> 0, relay_fee |-> 1000,
     gas_price |-> 1, token_balance |-> [c \in ERC20_CURRENCIES |-> 210500],
     token_rate |-> 1, eth_balance |-> 0, rpc_error |-> "none",
     rpc_error_at |-> 1, send_ok |-> TRUE]

BtcAnswers ==
    {[DefaultAnswer EXCEPT !.utxo_ok = o, !.utxo_value = v, !.relay_fee = f,
                           !.send_ok = s] :
        o \in BOOLEAN, v \in BtcValues, f \in RelayFees, s \in BOOLEAN}

\* an RPC error ends the call before the balance of the address and the
\* outcome of the broadcast are asked for
GasRefillAnswers ==
    {[DefaultAnswer EXCEPT !.gas_price = g, !.token_balance = b, !.token_rate = r,
                           !.eth_balance = e, !.send_ok = s] :
        g \in GasPrices, b \in [ERC20_CURRENCIES -> TokenBalances],
        r \in TokenRates, e \in EthBalances, s \in BOOLEAN}
    \cup
    {[DefaultAnswer EXCEPT !.gas_price = g, !.token_balance = b, !.token_rate = r,
                           !.rpc_error = x[1], !.rpc_error_at = x[2]] :
        g \in GasPrices, b \in [ERC20_CURRENCIES -> TokenBalances],
        r \in TokenRates,
        x \in ((RpcErrors \ {"none", "balanceOf"}) \X {1})
                  \cup ({"balanceOf"} \X {1, 2})}

Erc20Answers ==
    {[DefaultAnswer EXCEPT !.send_ok = s] : s \in BOOLEAN}

EthAnswers ==
    {[DefaultAnswer EXCEPT !.gas_price = g, !.eth_balance = e, !.send_ok = s] :
        g \in GasPrices, e \in EthBalances, s \in BOOLEAN}

\* the answers process_selector asks for on row tx: a row whose status no
\* processor accepts (lines 182, 243, 359, 442) leads to no gateway call
ProcessAnswers(tx) ==
    IF tx.status \notin {CREATED, WAITING_FOR_GAS_REFILL, WAITING_FOR_ERC20_TRANSFERS}
    THEN {DefaultAnswer}
    ELSE IF tx.tx_type = GAS_REFILL THEN GasRefillAnswers
    ELSE IF tx.tx_type = ERC20 THEN Erc20Answers
    ELSE IF tx.currency = "BTC" THEN BtcAnswers
    ELSE EthAnswers

ConfirmAnswers ==
    [receipt : Receipts, confirmations_error : BOOLEAN, confirmations : Confirmations]

DefaultConfirmAnswer ==
    [receipt |-> "not_found", confirmations_error |-> TRUE, confirmations |-> 0]

\* the answers confirm_selector asks for on row tx: none for a row that is
\* COMPLETED (lines 521, 543), no receipt and no count for a row without a
\* hash, a receipt or a confirmation count otherwise
ConfirmAnswersFor(tx) ==
    IF tx.status = COMPLETED \/ tx.tx_hash = Null THEN {DefaultConfirmAnswer}
    ELSE IF tx.currency = "ETH" \/ tx.tx_type = ERC20
    THEN {[DefaultConfirmAnswer EXCEPT !.receipt = r] : r \in Receipts}
    ELSE {[DefaultConfirmAnswer EXCEPT !.confirmations_error = e,
                                       !.confirmations = c] :
             e \in BOOLEAN, c \in Confirmations}

---------------------------------------------------------------------------
(* WithdrawTransaction: processing *)
\* mutant: the time of the broadcast is not stored
RelayedWithoutTime(T, id, t) ==
    [T EXCEPT ![id].status = PENDING, ![id].tx_hash = HashOf(id)]

\* self.status = status; self.save() and the other fields written with it
Relayed(T, id, t) ==
    [T EXCEPT ![id].status = PENDING, ![id].tx_hash = HashOf(id),
              ![id].relayed_at = t]

Rejected(T, id) ==
    [T EXCEPT ![id].status = FAILED, ![id].error_message = "rejected"]
\* mutant: the status of the row is not looked at
process_withdraw_btc_any_status(T, id, gw, t) ==
    LET self == T[id]
        balance == IF gw.utxo_value <= 0 THEN 0 ELSE gw.utxo_value
        transaction_fee == gw.relay_fee
    IN  IF self.currency # "BTC" /\ self.tx_type # NATIVE THEN T
        ELSE IF ~gw.utxo_ok THEN T
        ELSE IF balance < transaction_fee
        THEN [T EXCEPT ![id].status = SKIPPED]
        ELSE IF gw.send_ok THEN Relayed(T, id, t)
        ELSE Rejected(T, id)

process_withdraw_btc(T, id, gw, t) ==
    LET self == T[id]
        balance == IF gw.utxo_value <= 0 THEN 0 ELSE gw.utxo_value
        transaction_fee == gw.relay_fee
    IN  IF self.currency # "BTC" /\ self.tx_type # NATIVE THEN T
        ELSE IF self.status # CREATED THEN T
        ELSE IF ~gw.utxo_ok THEN T
        ELSE IF balance < transaction_fee
        THEN [T EXCEPT ![id].status = SKIPPED]
        ELSE IF gw.send_ok THEN Relayed(T, id, t)
        ELSE Rejected(T, id)
\* mutant: any entry of the gas refill queue of the cycle lets the refill through
RefillQueueManagerSetAny(T, M, id) ==
    {m \in Indices(M) : /\ M[m].withdraw_cycle = T[id].withdraw_cycle
                        /\ M[m].queue_type = T[id].tx_type}

\* lines 247-254: the queue entries that authorise the gas refill
RefillQueueManagerSet(T, M, id) ==
    {m \in Indices(M) : /\ M[m].tx_to_process = id
                        /\ M[m].withdraw_cycle = T[id].withdraw_cycle
                        /\ M[m].queue_type = T[id].tx_type}

\* lines 272-276, in the order of the table
Erc20Withdrawals(T, cyc, account) ==
    {i \in Indices(T) : /\ T[i].withdraw_cycle = cyc
                        /\ T[i].account = account
                        /\ T[i].tx_type = ERC20}

RECURSIVE SortIds(_)
SortIds(S) ==
    IF S = {} THEN <<>> ELSE <<Min(S)>> \o SortIds(S \ {Min(S)})

\* lines 282-285, with the rate provider's answer as the value in wei of one
\* unit of the token
TokenBalanceInEth(token_balance, token_rate) == token_balance * token_rate

\* int(x * 1.1) and int(x * 1.2) on the fees of the model
TimesOnePointOne(x) == (x * 11) \div 10
TimesOnePointTwo(x) == (x * 12) \div 10

\* lines 278-289: the first n token withdrawals get their amount and gas price
RECURSIVE ReadTokenBalances(_, _, _, _)
ReadTokenBalances(T, tokens, n, gw) ==
    IF n = 0 THEN T
    ELSE LET i == tokens[n]
         IN  [ReadTokenBalances(T, tokens, n - 1, gw) EXCEPT
                 ![i].amount = gw.token_balance[T[i].currency],
                 ![i].gas_price_erc20 = gw.gas_price]

RECURSIVE SumTokenBalances(_, _, _, _)
SumTokenBalances(T, tokens, n, gw) ==
    IF n = 0 THEN 0
    ELSE TokenBalanceInEth(gw.token_balance[T[tokens[n]].currency], gw.token_rate)
            + SumTokenBalances(T, tokens, n - 1, gw)

\* lines 298-300
RECURSIVE SkipAll(_, _, _)
SkipAll(T, tokens, n) ==
    IF n = 0 THEN T
    ELSE [SkipAll(T, tokens, n - 1) EXCEPT ![tokens[n]].status = SKIPPED]
\* mutant: token value equal to the gas cost is taken as worth the refill
TokensTooLowStrict(total_erc20_balances_in_eth, total_gas_refill_cost) ==
    total_erc20_balances_in_eth < total_gas_refill_cost

\* line 292
TokensTooLow(total_erc20_balances_in_eth, total_gas_refill_cost) ==
    total_erc20_balances_in_eth <= total_gas_refill_cost

\* line 306
AlreadyFunded(address_to_refill_balance, erc20_gas_fee) ==
    address_to_refill_balance > TimesOnePointOne(erc20_gas_fee)

process_gas_refill(T, M, id, gw, t) ==
    LET self == T[id]
        gas_price == gw.gas_price
        refill_gas_fee == gas_price * refill_gas_limit
        erc20_gas_fee == gas_price * (base_erc20_gas_limit * self.gas_tx_count)
        tokens == SortIds(Erc20Withdrawals(T, self.withdraw_cycle, self.account))
        \* a token the gateway has no contract for stops the loop as an RPC
        \* error does
        unknown == {k \in Indices(tokens) : T[tokens[k]].currency \notin ERC20_CURRENCIES}
        failing == unknown \cup
                   (IF gw.rpc_error = "balanceOf" /\ gw.rpc_error_at <= Len(tokens)
                    THEN {gw.rpc_error_at} ELSE {})
        T1 == ReadTokenBalances(T, tokens, Len(tokens), gw)
        total_gas_refill_cost == refill_gas_fee + erc20_gas_fee
        refill_amount == TimesOnePointTwo(erc20_gas_fee)
        T2 == [T1 EXCEPT ![id].amount = refill_amount]
    IN  IF self.currency # "ETH" /\ self.tx_type # GAS_REFILL THEN T
        ELSE IF self.status # CREATED THEN T
        ELSE IF RefillQueueManagerSet(T, M, id) = {} THEN T
        ELSE IF gw.rpc_error = "gasPrice" THEN T
        ELSE IF self.gas_tx_count = Null THEN T
        ELSE IF failing # {}
        THEN ReadTokenBalances(T, tokens, Min(failing) - 1, gw)
        ELSE IF TokensTooLow(SumTokenBalances(T, tokens, Len(tokens), gw),
                             total_gas_refill_cost)
        THEN SkipAll([T1 EXCEPT ![id].status = ERC20_BALANCE_TOO_LOW],
                     tokens, Len(tokens))
        ELSE IF gw.rpc_error = "getBalance" THEN T1
        ELSE IF AlreadyFunded(gw.eth_balance, erc20_gas_fee)
        THEN [T1 EXCEPT ![id].status = SKIPPED]
        ELSE IF gw.rpc_error = "getTransactionCount" THEN T1
        ELSE IF gw.send_ok
        THEN [Relayed(T2, id, t) EXCEPT ![id].gas_price_erc20 = gas_price]
        ELSE Rejected(T2, id)

\* lines 363-367
RefillTransaction(T, id) ==
    {i \in Indices(T) : /\ T[i].withdraw_cycle = T[id].withdraw_cycle
                        /\ T[i].account = T[id].account
                        /\ T[i].tx_type = GAS_REFILL}

\* mutant: a refill that is still in flight counts as done
RefillResolvedOrPending(status) == status \in {COMPLETED, SKIPPED, PENDING}

\* line 382: the refill no longer holds the withdrawal back
RefillResolved(status) == status \in {COMPLETED, SKIPPED}
\* mutant: the ERC20 queue entry of the account lets every withdrawal through
Erc20QueueManagerSetAny(T, M, id) ==
    {m \in Indices(M) : /\ M[m].withdraw_cycle = T[id].withdraw_cycle
                        /\ M[m].queue_type = T[id].tx_type
                        /\ M[m].account = T[id].account}

\* lines 386-391
Erc20QueueManagerSet(T, M, id) ==
    {m \in Indices(M) : /\ M[m].tx_to_process = id
                        /\ M[m].withdraw_cycle = T[id].withdraw_cycle
                        /\ M[m].queue_type = T[id].tx_type
                        /\ M[m].account = T[id].account}

process_withdraw_erc20(T, M, id, gw, t) ==
    LET self == T[id]
        refill_transaction == RefillTransaction(T, id)
        refill == T[CHOOSE i \in refill_transaction : TRUE]
    IN  IF self.currency \notin {"USDC", "USDT"} /\ self.tx_type # ERC20 THEN T
        ELSE IF self.status \notin {CREATED, WAITING_FOR_GAS_REFILL,
                                    WAITING_FOR_ERC20_TRANSFERS} THEN T
        ELSE IF refill_transaction = {}
        THEN [T EXCEPT ![id].status = SKIPPED]
        \* .get() on several rows raises MultipleObjectsReturned
        ELSE IF Cardinality(refill_transaction) > 1 THEN T
        ELSE IF refill.status = FAILED
        THEN [T EXCEPT ![id].status = SKIPPED]
        ELSE IF ~RefillResolved(refill.status) THEN T
        ELSE IF self.status \in {WAITING_FOR_GAS_REFILL, WAITING_FOR_ERC20_TRANSFERS}
                /\ Erc20QueueManagerSet(T, M, id) = {}
        THEN IF self.status = WAITING_FOR_GAS_REFILL
             THEN [T EXCEPT ![id].status = WAITING_FOR_ERC20_TRANSFERS]
             ELSE T
        \* int(None) raises TypeError; a currency without a contract raises too
        ELSE IF self.amount = Null \/ self.currency \notin ERC20_CURRENCIES THEN T
        ELSE IF gw.send_ok THEN Relayed(T, id, t)
        ELSE Rejected(T, id)

\* mutant: only token withdrawals in flight hold the sweep back
Erc20TransfersNotPending(T, id) ==
    \A i \in Erc20Withdrawals(T, T[id].withdraw_cycle, T[id].account) :
        T[i].status # PENDING

\* lines 445-458: the sweep need not wait for token withdrawals
Erc20TransfersDone(T, id) ==
    LET all_erc20_withdrawals ==
            Erc20Withdrawals(T, T[id].withdraw_cycle, T[id].account)
        completed_erc20_txes ==
            {i \in all_erc20_withdrawals : T[i].status \in {SKIPPED, COMPLETED}}
    IN  ~(Cardinality(completed_erc20_txes) < Cardinality(all_erc20_withdrawals))

process_withdraw_eth(T, id, gw, t) ==
    LET self == T[id]
        total_gas_fee == gw.gas_price * eth_sweep_gas_limit
    IN  IF self.currency # "ETH" /\ self.tx_type # NATIVE THEN T
        ELSE IF self.status \notin {CREATED, WAITING_FOR_ERC20_TRANSFERS} THEN T
        ELSE IF self.status = WAITING_FOR_ERC20_TRANSFERS /\ ~Erc20TransfersDone(T, id)
        THEN T
        ELSE IF gw.eth_balance < total_gas_fee
        THEN [T EXCEPT ![id].status = SKIPPED]
        ELSE IF gw.send_ok THEN Relayed(T, id, t)
        \* lines 502-509 set FAILED on the object and never save it
        ELSE T

process_selector(T, M, id, gw, t) ==
    IF T[id].tx_type = GAS_REFILL THEN process_gas_refill(T, M, id, gw, t)
    ELSE IF T[id].tx_type = ERC20 THEN process_withdraw_erc20(T, M, id, gw, t)
    ELSE IF T[id].currency = "BTC" THEN process_withdraw_btc(T, id, gw, t)
    ELSE IF T[id].currency = "ETH" THEN process_withdraw_eth(T, id, gw, t)
    ELSE T

---------------------------------------------------------------------------
(* WithdrawTransaction: confirmation *)
\* mutant: the stall window is not waited for
check_confirmation_time_at_once(T, id, hours, t) ==
    IF T[id].relayed_at = Null THEN T
    ELSE [T EXCEPT ![id].status = SENT_TX_NOT_FOUND]

\* lines 562-567; relayed_at = None makes the comparison raise TypeError
check_confirmation_time(T, id, hours, t) ==
    IF T[id].relayed_at = Null THEN T
    ELSE IF t < T[id].relayed_at + hours THEN T
    ELSE [T EXCEPT ![id].status = SENT_TX_NOT_FOUND]

\* lines 520-523 and 542-545: the only status the confirmation leaves alone
AlreadyValidated(status) == status = COMPLETED

\* the node has no receipt for a transaction that was never broadcast
tx_confirm_eth_erc20(T, id, gw, t) ==
    IF AlreadyValidated(T[id].status) THEN T
    ELSE IF T[id].tx_hash = Null \/ gw.receipt = "not_found"
    THEN check_confirmation_time(T, id, ETH_STALL_HOURS, t)
    ELSE IF gw.receipt = "reverted"
    THEN [T EXCEPT ![id].status = FAILED, ![id].error_message = "reverted"]
    ELSE [T EXCEPT ![id].status = COMPLETED]
\* mutant: three confirmations are enough
tx_confirm_btc_three_suffice(T, id, gw, t) ==
    IF AlreadyValidated(T[id].status) THEN T
    ELSE IF T[id].tx_hash = Null \/ gw.confirmations_error
    THEN check_confirmation_time(T, id, BTC_STALL_HOURS, t)
    ELSE IF gw.confirmations >= BTC_MIN_CONFIRMATIONS
    THEN [T EXCEPT ![id].status = COMPLETED]
    ELSE T

tx_confirm_btc(T, id, gw, t) ==
    IF AlreadyValidated(T[id].status) THEN T
    ELSE IF T[id].tx_hash = Null \/ gw.confirmations_error
    THEN check_confirmation_time(T, id, BTC_STALL_HOURS, t)
    ELSE IF gw.confirmations > BTC_MIN_CONFIRMATIONS
    THEN [T EXCEPT ![id].status = COMPLETED]
    ELSE T

confirm_selector(T, id, gw, t) ==
    IF T[id].currency = "ETH" \/ T[id].tx_type = ERC20
    THEN tx_confirm_eth_erc20(T, id, gw, t)
    ELSE IF T[id].currency = "BTC" THEN tx_confirm_btc(T, id, gw, t)
    ELSE T

---------------------------------------------------------------------------
(* TransactionManager *)

\* mutant: the transaction in flight is not looked at
is_current_tx_finished_always(T, M, m) == TRUE

is_current_tx_finished(T, M, m) ==
    IF M[m].tx_to_process = Null THEN TRUE
    ELSE T[M[m].tx_to_process].status # PENDING
\* mutant: a token withdrawal that waits is not counted as remaining
RemainingSetCreatedOnly(T, M, m) ==
    {i \in Indices(T) :
        /\ T[i].withdraw_cycle = M[m].withdraw_cycle
        /\ T[i].tx_type = M[m].queue_type
        /\ (M[m].queue_type = QUEUE_ERC20 => T[i].account = M[m].account)
        /\ T[i].status = CREATED}

\* lines 601-618, before the ordering
RemainingSet(T, M, m) ==
    {i \in Indices(T) :
        /\ T[i].withdraw_cycle = M[m].withdraw_cycle
        /\ T[i].tx_type = M[m].queue_type
        /\ IF M[m].queue_type = QUEUE_ERC20
           THEN /\ T[i].account = M[m].account
                /\ T[i].status \in {CREATED, WAITING_FOR_ERC20_TRANSFERS,
                                    WAITING_FOR_GAS_REFILL}
           ELSE T[i].status = CREATED}
\* mutant: the queue is read from its far end
OrderKeyDescending(T, M, m, i) ==
    IF M[m].queue_type = QUEUE_ERC20 THEN 0 - CodeRank(T[i].currency)
    ELSE 0 - T[i].account

\* order_by('currency') and order_by('account_id'); rows with equal keys in
\* the order of the table
OrderKey(T, M, m, i) ==
    IF M[m].queue_type = QUEUE_ERC20 THEN CodeRank(T[i].currency) ELSE T[i].account

RECURSIVE OrderBy(_, _, _, _)
OrderBy(T, M, m, S) ==
    IF S = {} THEN <<>>
    ELSE LET first == CHOOSE x \in S : \A y \in S :
                          \/ OrderKey(T, M, m, x) < OrderKey(T, M, m, y)
                          \/ /\ OrderKey(T, M, m, x) = OrderKey(T, M, m, y)
                             /\ x <= y
         IN  <<first>> \o OrderBy(T, M, m, S \ {first})

get_remaining_txes(T, M, m) == OrderBy(T, M, m, RemainingSet(T, M, m))

set_next_tx(T, M, m) ==
    LET remaining_withdrawals == get_remaining_txes(T, M, m)
    IN  IF M[m].completed THEN M
        ELSE IF ~is_current_tx_finished(T, M, m) THEN M
        ELSE IF remaining_withdrawals # <<>>
        THEN [M EXCEPT ![m].tx_to_process = remaining_withdrawals[1]]
        ELSE [M EXCEPT ![m].tx_to_process = Null, ![m].completed = TRUE]

---------------------------------------------------------------------------
(* WithdrawCycle *)

ongoing_tx_statuses ==
    {CREATED, PENDING, WAITING_FOR_ERC20_TRANSFERS, WAITING_FOR_GAS_REFILL}

OngoingTransactions(T, cyc) ==
    {i \in Indices(T) : /\ T[i].withdraw_cycle = cyc
                        /\ T[i].status \in ongoing_tx_statuses}

check_for_completion(C, T, cyc) ==
    IF Cardinality(OngoingTransactions(T, cyc)) > 0 THEN C
    ELSE [C EXCEPT ![cyc].status = CYCLE_COMPLETED]

---------------------------------------------------------------------------
(* Arguments of create_withdraw_cycle *)

NoArg == [kind |-> "none", items |-> <<>>]
ListArg(items) == [kind |-> "list", items |-> items]
NotAList == [kind |-> "other", items |-> <<>>]

ListsUpTo(n) == UNION {[1..k -> Codes] : k \in 0..n}

\* every argument within the bound: lists with duplicates and unsupported codes
AllArgs == {NoArg, NotAList} \cup {ListArg(l) : l \in ListsUpTo(MaxLen)}

\* the arguments of the cycle the driver is followed on
MainArgs ==
    {NoArg, ListArg(<<"BTC">>), ListArg(<<"USDC">>), ListArg(<<"USDT", "USDC">>),
     ListArg(<<"USDC", "ETH">>)}

\* the argument of cycles that run side by side
TokenArgs == {ListArg(<<"USDC">>)}

---------------------------------------------------------------------------
(* State machine *)

Idle == [cycle |-> 0, pos |-> 0]

\* every row a builder run may write
AllRows == MaxBuilderCycles * MaxAccounts * (Cardinality(AVAILABLE_CURRENCIES) + 1)

\* a worker that is in no process_selector call
IdleWorker == [stage |-> "idle"]

Init ==
    /\ purchases \in {1..n : n \in 0..MaxAccounts}
    /\ cycles = <<>>
    /\ txs = <<>>
    /\ managers = <<>>
    /\ now = 0
    /\ builder = Idle
    /\ call = [arg |-> NoArg, outcome |-> "none"]
    /\ workers = [w \in 1..MaxWorkers |-> IdleWorker]
    /\ broadcasts = [i \in 1..AllRows |-> 0]

\* create_withdraw_cycle(arg), the whole call in one step, while fewer than
\* limit cycles exist and the tables stay within rows transactions
CreateCycle(Args, limit, rows) ==
    \E arg \in Args :
        LET db == CreateWithdrawCycle(DB, purchases, arg)
        IN  /\ builder = Idle
            /\ Len(cycles) < limit
            /\ Len(db.txs) <= rows
            /\ cycles' = db.cycles
            /\ txs' = db.txs
            /\ managers' = db.managers
            /\ call' = [arg |-> arg, outcome |-> NormalizeCurrencies(arg).outcome]
            /\ UNCHANGED <<purchases, now, builder, workers, broadcasts>>

\* create_withdraw_cycle(arg) up to the write of the cycle row (lines 25-44)
BeginCreate(Args) ==
    \E arg \in Args :
        LET n == NormalizeCurrencies(arg)
        IN  /\ builder = Idle
            /\ Len(cycles) < MaxBuilderCycles
            /\ call' = [arg |-> arg, outcome |-> n.outcome]
            /\ IF n.outcome = "ok"
               THEN /\ cycles' = OpenCycle(DB, n.currencies).cycles
                    /\ builder' = [cycle |-> Len(cycles) + 1, pos |-> 1]
               ELSE UNCHANGED <<cycles, builder>>
            /\ UNCHANGED <<purchases, txs, managers, now, workers, broadcasts>>

BuilderPairs == Pairs(purchases, cycles[builder.cycle].currencies)

\* one turn of the loop at lines 48-99
BuildStep ==
    /\ builder # Idle
    /\ builder.pos <= Len(BuilderPairs)
    /\ LET p == BuilderPairs[builder.pos]
           db == BuildPair(DB, builder.cycle, p[1], p[2],
                           cycles[builder.cycle].currencies)
       IN  /\ txs' = db.txs
           /\ managers' = db.managers
    /\ builder' = [builder EXCEPT !.pos = @ + 1]
    /\ UNCHANGED <<purchases, cycles, now, call, workers, broadcasts>>

\* lines 101-102
FinishCreate ==
    /\ builder # Idle
    /\ builder.pos > Len(BuilderPairs)
    /\ cycles' = CloseCycle(DB, builder.cycle).cycles
    /\ builder' = Idle
    /\ UNCHANGED <<purchases, txs, managers, now, call, workers, broadcasts>>

\* the call on row id comes to the broadcast under the answers gw: only
\* then does its outcome depend on the answer of the network (lines 222,
\* 334, 424, 496)
ReachesBroadcast(T, M, id, gw, t) ==
    process_selector(T, M, id, [gw EXCEPT !.send_ok = TRUE], t)
        # process_selector(T, M, id, [gw EXCEPT !.send_ok = FALSE], t)

\* process_selector() on row id, the whole call in one step
Process ==
    \E id \in Indices(txs) : \E gw \in ProcessAnswers(txs[id]) :
        /\ txs' = process_selector(txs, managers, id, gw, now)
        /\ broadcasts' = IF ReachesBroadcast(txs, managers, id, gw, now) /\ gw.send_ok
                         THEN [broadcasts EXCEPT ![id] = @ + 1]
                         ELSE broadcasts
        /\ UNCHANGED <<purchases, cycles, managers, now, builder, call, workers>>

Confirm ==
    \E id \in Indices(txs) : \E gw \in ConfirmAnswersFor(txs[id]) :
        /\ txs' = confirm_selector(txs, id, gw, now)
        /\ UNCHANGED <<purchases, cycles, managers, now, builder, call, workers, broadcasts>>

SetNextTx ==
    \E m \in Indices(managers) :
        /\ managers' = set_next_tx(txs, managers, m)
        /\ UNCHANGED <<purchases, cycles, txs, now, builder, call, workers, broadcasts>>

CheckForCompletion ==
    \E cyc \in Indices(cycles) :
        /\ cycles' = check_for_completion(cycles, txs, cyc)
        /\ UNCHANGED <<purchases, txs, managers, now, builder, call, workers, broadcasts>>

\* the stall window of row tx (lines 529, 554)
StallHours(tx) ==
    IF tx.currency = "ETH" \/ tx.tx_type = ERC20 THEN ETH_STALL_HOURS
    ELSE BTC_STALL_HOURS

\* the clock of the model runs while a broadcast is inside its stall window:
\* at other times no comparison of the program depends on it
Tick ==
    /\ now < MaxTime
    /\ \E i \in Indices(txs) : /\ txs[i].relayed_at # Null
                              /\ txs[i].status # COMPLETED
                              /\ now < txs[i].relayed_at + StallHours(txs[i])
    /\ now' = now + 1
    /\ UNCHANGED <<purchases, cycles, txs, managers, builder, call, workers, broadcasts>>

CreateCycleMain == CreateCycle(MainArgs, 1, MaxTxs)
CreateCycleAny == CreateCycle(AllArgs, MaxBuilderCycles, AllRows)
CreateCycleToken == CreateCycle(TokenArgs, MaxCycles, MaxTxs)
BeginCreateAny == BeginCreate(AllArgs)

\* the driver on one cycle whose creation has returned
Next ==
    \/ CreateCycleMain
    \/ Process
    \/ Confirm
    \/ SetNextTx
    \/ CheckForCompletion
    \/ Tick

Spec == Init /\ [][Next]_vars

\* the driver on several cycles of the same accounts, the clock standing still
NextCycles ==
    \/ CreateCycleToken
    \/ Process
    \/ Confirm
    \/ SetNextTx
    \/ CheckForCompletion

SpecCycles == Init /\ [][NextCycles]_vars

\* create_withdraw_cycle alone, on every argument
NextBuilder == CreateCycleAny

SpecBuilder == Init /\ [][NextBuilder]_vars

\* create_withdraw_cycle step by step, with completion checks in between
NextInterleaved ==
    \/ BeginCreateAny
    \/ BuildStep
    \/ FinishCreate
    \/ CheckForCompletion

SpecInterleaved == Init /\ [][NextInterleaved]_vars

\* the arguments of the cycle two workers are followed on
WorkerArgs == {ListArg(<<"BTC">>), ListArg(<<"USDC">>), ListArg(<<"ETH">>)}

CreateCycleWorkers == CreateCycle(WorkerArgs, 1, MaxTxs)

\* what the call has saved when it comes to the broadcast: the amounts and
\* gas prices of the account's token withdrawals (lines 287-289) and the
\* amount of the refill (lines 317-318); R is the tables after the whole call
BeforeBroadcast(T, R, id) ==
    [R EXCEPT ![id] = [T[id] EXCEPT !.amount = R[id].amount]]

\* a worker enters process_selector() on row id and runs it up to the
\* broadcast: the status, refill and queue checks on the tables as they are
\* now, and the requests that come before the broadcast. A call that ends
\* before the broadcast is over in this step.
WorkerCheck ==
    \E w \in DOMAIN workers : \E id \in Indices(txs) :
    \E gw \in {g \in ProcessAnswers(txs[id]) : g.send_ok} :
        LET sent == process_selector(txs, managers, id, gw, now)
            refused == process_selector(txs, managers, id,
                                        [gw EXCEPT !.send_ok = FALSE], now)
        IN  /\ workers[w].stage = "idle"
            /\ IF ReachesBroadcast(txs, managers, id, gw, now)
               THEN /\ txs' = BeforeBroadcast(txs, sent, id)
                    /\ workers' = [workers EXCEPT ![w] =
                           [stage |-> "checked", tx |-> id,
                            on_success |-> sent[id],
                            on_failure |-> refused[id],
                            saves_failure |-> refused # txs]]
               ELSE /\ txs' = sent
                    /\ UNCHANGED workers
            /\ UNCHANGED <<purchases, cycles, managers, now, builder, call,
                           broadcasts>>

\* the worker hands the signed transaction to the network (lines 222, 334,
\* 424, 496), which accepts or refuses it
WorkerBroadcast ==
    \E w \in DOMAIN workers : \E accepted \in BOOLEAN :
        /\ workers[w].stage = "checked"
        /\ workers' = [workers EXCEPT ![w] =
               [stage |-> "sent", tx |-> workers[w].tx, accepted |-> accepted,
                on_success |-> workers[w].on_success,
                on_failure |-> workers[w].on_failure,
                saves_failure |-> workers[w].saves_failure]]
        /\ broadcasts' = IF accepted
                         THEN [broadcasts EXCEPT ![workers[w].tx] = @ + 1]
                         ELSE broadcasts
        /\ UNCHANGED <<purchases, cycles, txs, managers, now, builder, call>>

\* the worker saves its copy of the row: PENDING with the hash and the time
\* (lines 224-228, 335-339), or FAILED with the message where the failure is
\* saved; save() writes every field of the row
WorkerWrite ==
    \E w \in DOMAIN workers :
        /\ workers[w].stage = "sent"
        /\ txs' = IF workers[w].accepted
                  THEN [txs EXCEPT ![workers[w].tx] =
                           [workers[w].on_success EXCEPT !.relayed_at = now]]
                  ELSE IF workers[w].saves_failure
                  THEN [txs EXCEPT ![workers[w].tx] = workers[w].on_failure]
                  ELSE txs
        /\ workers' = [workers EXCEPT ![w] = IdleWorker]
        /\ UNCHANGED <<purchases, cycles, managers, now, builder, call,
                       broadcasts>>

\* several workers of the driver on one cycle, each call in three steps
NextWorkers ==
    \/ CreateCycleWorkers
    \/ WorkerCheck
    \/ WorkerBroadcast
    \/ WorkerWrite
    \/ SetNextTx

SpecWorkers == Init /\ [][NextWorkers]_vars

---------------------------------------------------------------------------
(* Properties *)

TxIds == Indices(txs)

TerminalStatuses ==
    {COMPLETED, SKIPPED, FAILED, SENT_TX_NOT_FOUND, ERC20_BALANCE_TOO_LOW}

\* the transactions a queue entry watches: same cycle, same type, and same
\* account for an ERC20 queue
QueueDomain(m) ==
    {i \in TxIds : /\ txs[i].withdraw_cycle = managers[m].withdraw_cycle
                   /\ txs[i].tx_type = managers[m].queue_type
                   /\ (managers[m].queue_type = QUEUE_ERC20
                          => txs[i].account = managers[m].account)}

PendingIn(S) == {i \in S : txs[i].status = PENDING}

\* C1: in every reachable state, at most one of the transactions a queue
\* entry watches is PENDING.
C1_OnePendingPerQueue ==
    \A m \in Indices(managers) : Cardinality(PendingIn(QueueDomain(m))) <= 1

\* a queue that has one transaction in flight after another one was
\* broadcast and confirmed before it
C1_Witness ==
    \E m \in Indices(managers) : \E i, j \in QueueDomain(m) :
        /\ i # j
        /\ txs[i].status = PENDING
        /\ txs[j].status = COMPLETED
        /\ txs[j].tx_hash # Null

\* the key that signs a transaction: the operator's gas key for a gas refill
\* (line 330), the account's ETH key for its ERC20 withdrawals and its ETH
\* sweep (lines 406, 460), the account's BTC key otherwise (line 189)
SigningKey(tx) ==
    IF tx.tx_type = GAS_REFILL THEN <<"gas", 0>>
    ELSE IF tx.currency = "BTC" THEN <<"btc", tx.account>>
    ELSE <<"eth", tx.account>>

\* C2: no two transactions signed by the same key are PENDING at the same
\* time, also when several cycles of the same accounts exist side by side.
C2_OnePendingPerKey ==
    \A i, j \in TxIds :
        (i # j /\ txs[i].status = PENDING /\ txs[j].status = PENDING)
            => SigningKey(txs[i]) # SigningKey(txs[j])

\* C3: an ERC20 withdrawal is never PENDING while the gas refill of its
\* account and cycle is in a status other than COMPLETED or SKIPPED.
C3_Erc20PendingAfterRefill ==
    \A i \in TxIds :
        (txs[i].tx_type = ERC20 /\ txs[i].status = PENDING)
            => \A g \in RefillTransaction(txs, i) :
                   txs[g].status \in {COMPLETED, SKIPPED}

\* an ERC20 withdrawal in flight whose refill was broadcast and confirmed
C3_Witness ==
    \E i \in TxIds :
        /\ txs[i].tx_type = ERC20
        /\ txs[i].status = PENDING
        /\ \E g \in RefillTransaction(txs, i) :
               txs[g].status = COMPLETED /\ txs[g].tx_hash # Null

\* C4: an ETH native sweep is never PENDING while an ERC20 withdrawal of the
\* same account and cycle is in a non-terminal status.
C4_SweepAfterErc20 ==
    \A i \in TxIds :
        (txs[i].tx_type = NATIVE /\ txs[i].currency = "ETH"
            /\ txs[i].status = PENDING)
            => \A j \in Erc20Withdrawals(txs, txs[i].withdraw_cycle, txs[i].account) :
                   txs[j].status \notin ongoing_tx_statuses

\* a sweep in flight beside an ERC20 withdrawal that was broadcast and
\* confirmed
C4_Witness ==
    \E i \in TxIds :
        /\ txs[i].tx_type = NATIVE
        /\ txs[i].currency = "ETH"
        /\ txs[i].status = PENDING
        /\ \E j \in Erc20Withdrawals(txs, txs[i].withdraw_cycle, txs[i].account) :
               txs[j].status = COMPLETED /\ txs[j].tx_hash # Null

CycleRank(status) ==
    CASE status = CYCLE_CREATED -> 0
      [] status = CYCLE_PENDING -> 1
      [] status = CYCLE_COMPLETED -> 2

\* C5 (state part): a cycle that is COMPLETED owns no transaction in a
\* non-terminal status.
C5_CompletedCycleIsDone ==
    \A c \in Indices(cycles) :
        cycles[c].status = CYCLE_COMPLETED => OngoingTransactions(txs, c) = {}

\* C5: a COMPLETED cycle owns no non-terminal transaction, and a cycle
\* becomes COMPLETED only from PENDING and only when it owns none.
C5_CompletionOnlyFromPending ==
    /\ []C5_CompletedCycleIsDone
    /\ [][\A c \in Indices(cycles) :
            (cycles[c].status # CYCLE_COMPLETED /\ cycles'[c].status = CYCLE_COMPLETED)
                => /\ cycles[c].status = CYCLE_PENDING
                   /\ OngoingTransactions(txs, c) = {}]_vars

\* C6: the status of a cycle only moves forward along
\* CREATED -> PENDING -> COMPLETED, in every interleaving of
\* create_withdraw_cycle with check_for_completion.
C6_CycleStatusMonotonic ==
    [][\A c \in Indices(cycles) :
          CycleRank(cycles'[c].status) >= CycleRank(cycles[c].status)]_vars

\* the codes a call asks for
RequestedCodes(arg) ==
    IF arg.kind = "none" \/ arg.items = <<>> THEN AVAILABLE_CURRENCIES
    ELSE SeqRange(arg.items)

\* C7: for every list of codes (here every non-empty one: an empty list
\* stands for no argument), unsupported codes and duplicates included, a cycle
\* is created, reaches PENDING and stores the sorted, deduplicated
\* intersection of the list with the supported set.
C7_UnsupportedNeverAborts ==
    (call.outcome # "none" /\ call.arg.kind = "list" /\ call.arg.items # <<>>)
        => /\ call.outcome = "ok"
           /\ cycles # <<>>
           /\ cycles[Len(cycles)].status = CYCLE_PENDING
           /\ cycles[Len(cycles)].currencies
                  = SortCodes(SeqRange(call.arg.items) \cap AVAILABLE_CURRENCIES)

GasRefillsOf(c, a) ==
    {i \in TxIds : /\ txs[i].withdraw_cycle = c
                   /\ txs[i].account = a
                   /\ txs[i].tx_type = GAS_REFILL}

\* C8: after create_withdraw_cycle, an account has exactly one GAS_REFILL
\* transaction in the cycle when a token currency was asked for, its
\* gas_tx_count being the number of token currencies asked for, and none
\* when no token currency was asked for.
C8_OneGasRefillPerAccount ==
    call.outcome = "ok" =>
        LET c == Len(cycles)
            tokens == RequestedCodes(call.arg) \cap ERC20_CURRENCIES
        IN  \A a \in purchases :
                IF tokens # {}
                THEN /\ Cardinality(GasRefillsOf(c, a)) = 1
                     /\ \A i \in GasRefillsOf(c, a) :
                            txs[i].gas_tx_count = Cardinality(tokens)
                ELSE GasRefillsOf(c, a) = {}

\* a second cycle of two accounts that asks for both tokens
C8_Witness ==
    /\ call.outcome = "ok"
    /\ Len(cycles) = 2
    /\ Cardinality(purchases) = 2
    /\ ERC20_CURRENCIES \subseteq RequestedCodes(call.arg)
    /\ \A a \in purchases : \E i \in GasRefillsOf(2, a) : txs[i].gas_tx_count = 2

WithdrawalsOf(c, a, cur) ==
    {i \in TxIds : /\ txs[i].withdraw_cycle = c
                   /\ txs[i].account = a
                   /\ txs[i].currency = cur
                   /\ txs[i].tx_type # GAS_REFILL}

ManagersOf(c, queue_type) ==
    {m \in Indices(managers) : /\ managers[m].withdraw_cycle = c
                               /\ managers[m].queue_type = queue_type}

\* C9: create_withdraw_cycle creates, for each account and each currency
\* asked for, exactly one withdrawal: a token gives ERC20 in
\* WAITING_FOR_GAS_REFILL, ETH beside a token gives NATIVE in
\* WAITING_FOR_ERC20_TRANSFERS, BTC gives NATIVE in CREATED, ETH without a
\* token gives nothing; one ERC20 queue entry per account with tokens, one
\* global GAS_REFILL queue entry per cycle, and gas refills start in CREATED.
C9_BuilderRows ==
    call.outcome = "ok" =>
        LET c == Len(cycles)
            req == RequestedCodes(call.arg)
            tokens == req \cap ERC20_CURRENCIES
        IN  /\ \A a \in purchases : \A cur \in Codes :
                   LET rows == WithdrawalsOf(c, a, cur)
                   IN  IF cur \in req /\ ~(cur = "ETH" /\ tokens = {})
                       THEN /\ Cardinality(rows) = 1
                            /\ \A i \in rows :
                                 CASE cur \in ERC20_CURRENCIES ->
                                        /\ txs[i].tx_type = ERC20
                                        /\ txs[i].status = WAITING_FOR_GAS_REFILL
                                   [] cur = "ETH" ->
                                        /\ txs[i].tx_type = NATIVE
                                        /\ txs[i].status = WAITING_FOR_ERC20_TRANSFERS
                                   [] OTHER ->
                                        /\ txs[i].tx_type = NATIVE
                                        /\ txs[i].status = CREATED
                       ELSE rows = {}
            /\ \A i \in TxIds : txs[i].withdraw_cycle = c => txs[i].account \in purchases
            /\ \A a \in purchases :
                   Cardinality({m \in ManagersOf(c, QUEUE_ERC20) : managers[m].account = a})
                       = IF tokens # {} THEN 1 ELSE 0
            /\ \A m \in ManagersOf(c, QUEUE_ERC20) : managers[m].account \in purchases
            /\ Cardinality(ManagersOf(c, QUEUE_GAS_REFILL))
                   = IF tokens # {} /\ purchases # {} THEN 1 ELSE 0
            /\ \A a \in purchases : \A i \in GasRefillsOf(c, a) : txs[i].status = CREATED

\* a cycle of two accounts asked for by an explicit list of a token, ETH and
\* BTC, in any order: every kind of row is created for both accounts
C9_Witness ==
    /\ call.outcome = "ok"
    /\ Cardinality(purchases) = 2
    /\ call.arg.kind = "list"
    /\ Len(call.arg.items) = 3
    /\ SeqRange(call.arg.items) = {"USDC", "ETH", "BTC"}
    /\ \A a \in purchases : \A cur \in {"USDC", "ETH", "BTC"} :
           WithdrawalsOf(Len(cycles), a, cur) # {}

\* C10: a confirmation method invoked on a transaction in a terminal status,
\* and check_for_completion invoked on a COMPLETED cycle, change no state,
\* whatever the gateway answers.
C10_ConfirmTerminalIsNoOp ==
    /\ \A i \in TxIds : txs[i].status \in TerminalStatuses =>
           \A gw \in ConfirmAnswers :
               /\ confirm_selector(txs, i, gw, now) = txs
               /\ tx_confirm_eth_erc20(txs, i, gw, now) = txs
               /\ tx_confirm_btc(txs, i, gw, now) = txs
    /\ \A c \in Indices(cycles) : cycles[c].status = CYCLE_COMPLETED =>
           check_for_completion(cycles, txs, c) = cycles

\* the transactions of the domain of queue entry m that may still be submitted
EligibleIn(m) ==
    {i \in QueueDomain(m) :
        IF managers[m].queue_type = QUEUE_ERC20
        THEN txs[i].status \in {CREATED, WAITING_FOR_ERC20_TRANSFERS,
                                WAITING_FOR_GAS_REFILL}
        ELSE txs[i].status = CREATED}

\* a completed queue entry points at no transaction and set_next_tx leaves it
\* as it is
C11_CompletedStays ==
    \A m \in Indices(managers) : managers[m].completed =>
        /\ managers[m].tx_to_process = Null
        /\ set_next_tx(txs, managers, m) = managers

\* C11: a queue entry becomes completed only in a set_next_tx call in which
\* no eligible transaction remains in its domain; a completed entry never
\* changes again, its tx_to_process is null, and set_next_tx on it changes
\* nothing.
C11_QueueCompletesOnce ==
    /\ []C11_CompletedStays
    /\ [][\A m \in Indices(managers) :
            /\ managers[m].completed => managers'[m] = managers[m]
            /\ (~managers[m].completed /\ managers'[m].completed)
                  => /\ EligibleIn(m) = {}
                     /\ managers' = set_next_tx(txs, managers, m)
                     /\ txs' = txs]_vars

\* a queue entry that completed after a transaction of its domain was
\* broadcast and confirmed
C11_Witness ==
    \E m \in Indices(managers) :
        /\ managers[m].completed
        /\ \E i \in QueueDomain(m) :
               txs[i].status = COMPLETED /\ txs[i].tx_hash # Null

\* the stall window of row tx, in hours, as the policy states it
ClaimedWindow(tx) == IF tx.currency = "BTC" THEN 3 ELSE 2

\* the chain reports the transaction of row tx as not found
NotFoundAnswer(tx, gw) ==
    IF tx.currency = "BTC" THEN gw.confirmations_error
    ELSE gw.receipt = "not_found"

\* inside the stall window no confirmation call sets SENT_TX_NOT_FOUND, and a
\* call that does not find the transaction changes nothing
C12_NotInsideWindow ==
    \A i \in TxIds :
        (txs[i].relayed_at # Null
            /\ now < txs[i].relayed_at + ClaimedWindow(txs[i]))
        => \A gw \in ConfirmAnswers :
               LET after == confirm_selector(txs, i, gw, now)
               IN  /\ after[i].status # SENT_TX_NOT_FOUND
                   /\ NotFoundAnswer(txs[i], gw) => after = txs

\* C12: a transaction reaches SENT_TX_NOT_FOUND only in a confirmation call
\* in which the chain reports it as not found and now >= relayed_at + window
\* (2 hours, 3 for BTC); while now < relayed_at + window a confirmation call
\* never sets SENT_TX_NOT_FOUND and leaves the status as it is when the
\* transaction is not found.
C12_StallPolicy ==
    /\ []C12_NotInsideWindow
    /\ [][\A i \in TxIds :
            (txs[i].status # SENT_TX_NOT_FOUND
                /\ txs'[i].status = SENT_TX_NOT_FOUND)
            => /\ txs[i].relayed_at # Null
               /\ now >= txs[i].relayed_at + ClaimedWindow(txs[i])
               /\ \E gw \in ConfirmAnswers :
                      /\ NotFoundAnswer(txs[i], gw)
                      /\ txs' = confirm_selector(txs, i, gw, now)]_vars

\* a BTC withdrawal that was given up at the end of its window of 3 hours
C12_Witness ==
    \E i \in TxIds :
        /\ txs[i].currency = "BTC"
        /\ txs[i].status = SENT_TX_NOT_FOUND
        /\ now = txs[i].relayed_at + 3

\* C13: a BTC withdrawal in CREATED that is processed with the unspent
\* outputs read becomes SKIPPED exactly when the balance does not exceed the
\* relay fee; a balance equal to the fee gives SKIPPED and no broadcast.
C13_BtcSkippedIffNotAboveFee ==
    \A i \in TxIds :
        (txs[i].currency = "BTC" /\ txs[i].tx_type = NATIVE
            /\ txs[i].status = CREATED)
        => \A gw \in BtcAnswers :
               gw.utxo_ok =>
                   LET after == process_selector(txs, managers, i, gw, now)
                       balance == IF gw.utxo_value <= 0 THEN 0 ELSE gw.utxo_value
                   IN  /\ (after[i].status = SKIPPED) <=> (balance <= gw.relay_fee)
                       /\ balance <= gw.relay_fee => after[i].tx_hash = Null

\* row tx is of the kind the processor is written for
MatchesBtc(tx) == tx.currency = "BTC" /\ tx.tx_type = NATIVE
MatchesGasRefill(tx) == tx.currency = "ETH" /\ tx.tx_type = GAS_REFILL
MatchesErc20(tx) == tx.currency \in ERC20_CURRENCIES /\ tx.tx_type = ERC20
MatchesEth(tx) == tx.currency = "ETH" /\ tx.tx_type = NATIVE

\* C14: each of the four processors, called on a transaction whose currency
\* or type is not the processor's, or whose status is not in the processor's
\* eligible set, changes no transaction, whatever the gateway would answer.
C14_MismatchIsNoOp ==
    \A i \in TxIds :
        /\ (~MatchesBtc(txs[i]) \/ txs[i].status # CREATED)
               => \A gw \in BtcAnswers :
                      process_withdraw_btc(txs, i, gw, now) = txs
        /\ (~MatchesGasRefill(txs[i]) \/ txs[i].status # CREATED)
               => \A gw \in GasRefillAnswers :
                      process_gas_refill(txs, managers, i, gw, now) = txs
        /\ (~MatchesErc20(txs[i])
               \/ txs[i].status \notin {CREATED, WAITING_FOR_GAS_REFILL,
                                        WAITING_FOR_ERC20_TRANSFERS})
               => \A gw \in Erc20Answers :
                      process_withdraw_erc20(txs, managers, i, gw, now) = txs
        /\ (~MatchesEth(txs[i])
               \/ txs[i].status \notin {CREATED, WAITING_FOR_ERC20_TRANSFERS})
               => \A gw \in EthAnswers :
                      process_withdraw_eth(txs, i, gw, now) = txs

\* C15: in every processor, when the broadcast is attempted and the gateway
\* rejects it, the stored row becomes FAILED with the error text, and no
\* later processing call broadcasts that row.
C15_RejectedBroadcastFails ==
    \A i \in TxIds : \A gw \in ProcessAnswers(txs[i]) :
        (/\ gw.send_ok
         /\ txs[i].status # PENDING
         /\ process_selector(txs, managers, i, gw, now)[i].status = PENDING)
        => LET rejected == process_selector(txs, managers, i,
                                            [gw EXCEPT !.send_ok = FALSE], now)
           IN  /\ rejected[i].status = FAILED
               /\ rejected[i].error_message # ""
               /\ \A again \in ProcessAnswers(rejected[i]) :
                      process_selector(rejected, managers, i, again, now)[i].status
                          # PENDING

\* the gas refill i is the one its queue entry points at
AuthorizedRefill(i) ==
    /\ txs[i].tx_type = GAS_REFILL
    /\ \E m \in Indices(managers) :
           /\ managers[m].queue_type = QUEUE_GAS_REFILL
           /\ managers[m].withdraw_cycle = txs[i].withdraw_cycle
           /\ managers[m].tx_to_process = i

\* the token withdrawals the refill i pays for
TokensOf(i) == Erc20Withdrawals(txs, txs[i].withdraw_cycle, txs[i].account)

\* value in ETH terms of the token balances the gateway reports for refill i
TokenValue(i, gw) ==
    LET tokens == SortIds(TokensOf(i))
    IN  SumTokenBalances(txs, tokens, Len(tokens), gw)

\* refill fee plus token-transfer fee of refill i
GasCost(i, gw) ==
    gw.gas_price * refill_gas_limit
        + gw.gas_price * base_erc20_gas_limit * txs[i].gas_tx_count

\* C16: when an authorized gas refill in CREATED is processed, every read of
\* the gateway succeeding, and the token value in ETH terms is less than or
\* equal to the total gas cost, the refill becomes ERC20_BALANCE_TOO_LOW,
\* every ERC20 withdrawal of the account in the cycle becomes SKIPPED, and
\* nothing is broadcast.
C16_TooLowSkipsTokens ==
    \A i \in TxIds :
        (AuthorizedRefill(i) /\ txs[i].status = CREATED)
        => \A gw \in GasRefillAnswers :
               (gw.rpc_error \notin {"gasPrice", "balanceOf"}
                   /\ TokenValue(i, gw) <= GasCost(i, gw))
               => LET after == process_selector(txs, managers, i, gw, now)
                  IN  /\ after[i].status = ERC20_BALANCE_TOO_LOW
                      /\ \A j \in TokensOf(i) : after[j].status = SKIPPED
                      /\ \A j \in TxIds :
                             /\ after[j].tx_hash = txs[j].tx_hash
                             /\ after[j].status = PENDING
                                    <=> txs[j].status = PENDING

\* a refill for two token transfers found too low (the token value the
\* gateway can report equals the gas cost or lies below it), its token
\* withdrawals skipped
C16_Witness ==
    \E i \in TxIds :
        /\ txs[i].tx_type = GAS_REFILL
        /\ txs[i].status = ERC20_BALANCE_TOO_LOW
        /\ txs[i].gas_tx_count = 2
        /\ Cardinality(TokensOf(i)) = 2
        /\ \A j \in TokensOf(i) : txs[j].status = SKIPPED /\ txs[j].amount # Null

\* the place of transaction i in the order of queue entry m: its currency
\* code in an ERC20 queue, its account id in the gas refill queue
QueuePlace(m, i) ==
    IF managers[m].queue_type = QUEUE_ERC20 THEN CodeRank(txs[i].currency)
    ELSE txs[i].account

\* C17: set_next_tx on a queue entry that is not completed changes nothing
\* when tx_to_process is set and PENDING; otherwise tx_to_process becomes the
\* first eligible transaction of the entry's domain (lowest currency code in
\* an ERC20 queue, lowest account id in the gas refill queue), or null
\* together with completed = true when none is eligible.
C17_SetNextTxAdvances ==
    \A m \in Indices(managers) :
        ~managers[m].completed =>
            LET after == set_next_tx(txs, managers, m)
                current == managers[m].tx_to_process
                next == after[m].tx_to_process
            IN  IF current # Null /\ txs[current].status = PENDING
                THEN after = managers
                ELSE IF EligibleIn(m) = {}
                THEN after = [managers EXCEPT ![m].tx_to_process = Null,
                                              ![m].completed = TRUE]
                ELSE /\ next \in EligibleIn(m)
                     /\ \A j \in EligibleIn(m) \ {next} :
                            QueuePlace(m, next) < QueuePlace(m, j)
                     /\ after = [managers EXCEPT ![m].tx_to_process = next]

\* a queue entry that was moved on to a later transaction of its domain after
\* an earlier one had ended
C17_Witness ==
    \E m \in Indices(managers) :
        /\ ~managers[m].completed
        /\ managers[m].tx_to_process # Null
        /\ \E j \in QueueDomain(m) :
               /\ QueuePlace(m, j) < QueuePlace(m, managers[m].tx_to_process)
               /\ txs[j].status \in TerminalStatuses

\* the statuses of a transaction that has not been submitted yet
PreSubmission == {CREATED, WAITING_FOR_ERC20_TRANSFERS, WAITING_FOR_GAS_REFILL}

\* the ERC20 withdrawals of the account and cycle of i with a lower currency code
EarlierTokens(i) ==
    {j \in Erc20Withdrawals(txs, txs[i].withdraw_cycle, txs[i].account) :
        CodeRank(txs[j].currency) < CodeRank(txs[i].currency)}

\* the gas refills of the cycle of i for accounts with a lower id
EarlierRefills(i) ==
    {j \in TxIds : /\ txs[j].tx_type = GAS_REFILL
                   /\ txs[j].withdraw_cycle = txs[i].withdraw_cycle
                   /\ txs[j].account < txs[i].account}

\* no ERC20 withdrawal is in flight while one with a lower code waits
C18_NoTokenOvertakes ==
    \A i \in TxIds :
        (txs[i].tx_type = ERC20 /\ txs[i].status = PENDING)
            => \A j \in EarlierTokens(i) : txs[j].status \notin PreSubmission

\* C18: submission follows the queue order: an ERC20 withdrawal never
\* reaches PENDING while an ERC20 withdrawal of the same account and cycle
\* with a lower currency code is in a pre-submission status, and a gas refill
\* never leaves CREATED while a gas refill of the cycle for a lower account id
\* is in CREATED.
C18_SubmissionFollowsQueueOrder ==
    /\ []C18_NoTokenOvertakes
    /\ [][\A i \in TxIds :
            /\ (txs[i].tx_type = ERC20 /\ txs[i].status # PENDING
                   /\ txs'[i].status = PENDING)
               => \A j \in EarlierTokens(i) :
                      txs[j].status \notin PreSubmission
            /\ (txs[i].tx_type = GAS_REFILL /\ txs[i].status = CREATED
                   /\ txs'[i].status # CREATED)
               => \A j \in EarlierRefills(i) : txs[j].status # CREATED]_vars

\* the second token withdrawal of an account in flight after the first one
\* was broadcast and confirmed
C18_Witness ==
    \E i \in TxIds :
        /\ txs[i].tx_type = ERC20
        /\ txs[i].status = PENDING
        /\ \E j \in EarlierTokens(i) :
               txs[j].status = COMPLETED /\ txs[j].tx_hash # Null

\* the ERC20 withdrawal i waits for a refill that is neither done nor failed
RefillOutstanding(i) ==
    /\ txs[i].tx_type = ERC20
    /\ txs[i].status = WAITING_FOR_GAS_REFILL
    /\ RefillTransaction(txs, i) # {}
    /\ \A g \in RefillTransaction(txs, i) :
           txs[g].status \notin {COMPLETED, SKIPPED, FAILED}

\* the refill of the ERC20 withdrawal i is done and no queue entry points at i
RefillDoneQueueBusy(i) ==
    /\ txs[i].tx_type = ERC20
    /\ txs[i].status = WAITING_FOR_GAS_REFILL
    /\ RefillTransaction(txs, i) # {}
    /\ \A g \in RefillTransaction(txs, i) : txs[g].status \in {COMPLETED, SKIPPED}
    /\ \A m \in Indices(managers) : managers[m].tx_to_process # i

\* C19 as stated: an ERC20 withdrawal in WAITING_FOR_GAS_REFILL processed
\* while its refill is neither COMPLETED, SKIPPED nor FAILED is set to
\* WAITING_FOR_ERC20_TRANSFERS, nothing being broadcast.
C19_PostponedBecomesWaitingForTransfers ==
    \A i \in TxIds :
        RefillOutstanding(i) =>
            \A gw \in Erc20Answers :
                process_selector(txs, managers, i, gw, now)
                    = [txs EXCEPT ![i].status = WAITING_FOR_ERC20_TRANSFERS]

\* C19 amended: an ERC20 withdrawal in WAITING_FOR_GAS_REFILL processed while
\* its refill is neither COMPLETED, SKIPPED nor FAILED is left as it is,
\* nothing being broadcast; it is set to WAITING_FOR_ERC20_TRANSFERS when the
\* refill is COMPLETED or SKIPPED and the account's queue entry does not
\* point at it.
C19_PostponedStaysWaitingForRefill ==
    \A i \in TxIds : \A gw \in Erc20Answers :
        LET after == process_selector(txs, managers, i, gw, now)
        IN  /\ RefillOutstanding(i) => after = txs
            /\ RefillDoneQueueBusy(i)
                   => after = [txs EXCEPT
                                  ![i].status = WAITING_FOR_ERC20_TRANSFERS]

\* one account's token withdrawal set to WAITING_FOR_ERC20_TRANSFERS behind
\* its confirmed refill, another account's still waiting for a refill in
\* flight
C19_Witness ==
    /\ \E i \in TxIds :
           /\ txs[i].tx_type = ERC20
           /\ txs[i].status = WAITING_FOR_ERC20_TRANSFERS
           /\ \A g \in RefillTransaction(txs, i) : txs[g].status = COMPLETED
    /\ \E i \in TxIds :
           /\ RefillOutstanding(i)
           /\ \E g \in RefillTransaction(txs, i) : txs[g].status = PENDING

\* every answer a processor may get from the gateway
AllProcessAnswers == BtcAnswers \cup GasRefillAnswers \cup Erc20Answers \cup EthAnswers

\* what the stall policy makes of the PENDING row i at time now
StallOutcome(i) ==
    IF now >= txs[i].relayed_at + ClaimedWindow(txs[i])
    THEN [txs EXCEPT ![i].status = SENT_TX_NOT_FOUND]
    ELSE txs

\* what a confirmation call may make of the PENDING row i on answer gw
ConfirmOutcome(i, gw) ==
    IF txs[i].currency = "BTC"
    THEN IF gw.confirmations_error THEN StallOutcome(i)
         ELSE IF gw.confirmations > 3
         THEN [txs EXCEPT ![i].status = COMPLETED]
         ELSE txs
    ELSE IF gw.receipt = "not_found" THEN StallOutcome(i)
    ELSE IF gw.receipt = "reverted"
    THEN [txs EXCEPT ![i].status = FAILED, ![i].error_message = "reverted"]
    ELSE [txs EXCEPT ![i].status = COMPLETED]

\* on a PENDING row a confirmation call does what the policy says, and a
\* processing call does nothing
C20_PendingRow ==
    \A i \in TxIds :
        txs[i].status = PENDING =>
            /\ \A gw \in ConfirmAnswers :
                   confirm_selector(txs, i, gw, now) = ConfirmOutcome(i, gw)
            /\ \A gw \in AllProcessAnswers :
                   process_selector(txs, managers, i, gw, now) = txs

\* C20: a transaction leaves PENDING only in a confirmation call: an ETH,
\* ERC20 or gas refill transaction to FAILED ('reverted') on a receipt with
\* failure status and to COMPLETED on any other receipt, a BTC transaction to
\* COMPLETED only on more than 3 confirmations, either to SENT_TX_NOT_FOUND
\* only by the stall policy; no processing call and no set_next_tx call
\* changes a PENDING transaction.
C20_PendingLeavesByConfirmation ==
    /\ []C20_PendingRow
    /\ [][\A i \in TxIds :
            (txs[i].status = PENDING /\ txs'[i] # txs[i])
            => \E gw \in ConfirmAnswers :
                   /\ txs' = confirm_selector(txs, i, gw, now)
                   /\ txs' = ConfirmOutcome(i, gw)
                   /\ managers' = managers]_vars

\* a BTC withdrawal confirmed, and one still in flight
C20_Witness ==
    /\ \E i \in TxIds :
           /\ txs[i].currency = "BTC"
           /\ txs[i].status = COMPLETED
           /\ txs[i].tx_hash # Null
    /\ \E i \in TxIds :
           /\ txs[i].currency = "BTC"
           /\ txs[i].status = PENDING

\* tables A and B agree on the status, amount and gas price of every row
SameProgress(A, B) ==
    /\ Len(A) = Len(B)
    /\ \A j \in Indices(A) : /\ A[j].status = B[j].status
                             /\ A[j].amount = B[j].amount
                             /\ A[j].gas_price_erc20 = B[j].gas_price_erc20

\* on answer gw the refill i gets as far as the read of the address balance
ReachesGetBalance(i, gw) ==
    /\ gw.rpc_error \in {"getBalance", "getTransactionCount"}
    /\ TokenValue(i, gw) > GasCost(i, gw)

\* C21: a processing call in which a gateway call fails before anything is
\* broadcast (the BTC unspent outputs cannot be fetched, or an RPC call of
\* the gas refill fails after the token balances were read) leaves the
\* status, amount and gas price of the transaction and of every other
\* transaction as they were.
C21_TransientFailureChangesNothing ==
    \A i \in TxIds :
        /\ (MatchesBtc(txs[i]) /\ txs[i].status = CREATED)
               => \A gw \in BtcAnswers :
                      ~gw.utxo_ok
                          => SameProgress(
                                 process_selector(txs, managers, i, gw, now), txs)
        /\ (AuthorizedRefill(i) /\ txs[i].status = CREATED)
               => \A gw \in GasRefillAnswers :
                      ReachesGetBalance(i, gw)
                          => SameProgress(
                                 process_selector(txs, managers, i, gw, now), txs)

\* row tx is PENDING or was PENDING before
HasBeenPending(tx) ==
    \/ tx.status \in {PENDING, COMPLETED, SENT_TX_NOT_FOUND}
    \/ tx.status = FAILED /\ tx.error_message = "reverted"

\* a row that is or was PENDING has its hash and its time of broadcast, and
\* no row has one of the two without the other
C22_RelayedRowsAreStamped ==
    \A i \in TxIds :
        /\ HasBeenPending(txs[i])
               => txs[i].tx_hash # Null /\ txs[i].relayed_at # Null
        /\ txs[i].tx_hash = Null <=> txs[i].relayed_at = Null

\* C22: a transaction that is PENDING or has been PENDING has tx_hash and
\* relayed_at set; both are set in the step in which the status becomes
\* PENDING, and neither is cleared or changed afterwards.
C22_HashAndTimeSetOnce ==
    /\ []C22_RelayedRowsAreStamped
    /\ [][\A i \in TxIds :
            /\ (txs[i].status # PENDING /\ txs'[i].status = PENDING)
                  => /\ txs[i].tx_hash = Null /\ txs[i].relayed_at = Null
                     /\ txs'[i].tx_hash # Null /\ txs'[i].relayed_at # Null
            /\ ~(txs[i].status # PENDING /\ txs'[i].status = PENDING)
                  => /\ txs'[i].tx_hash = txs[i].tx_hash
                     /\ txs'[i].relayed_at = txs[i].relayed_at]_vars

\* a row given up as not found and a row confirmed, each with its hash and
\* its time of broadcast
C22_Witness ==
    /\ \E i \in TxIds : /\ txs[i].status = SENT_TX_NOT_FOUND
                        /\ txs[i].tx_hash # Null
                        /\ txs[i].relayed_at # Null
    /\ \E i \in TxIds : /\ txs[i].status = COMPLETED
                        /\ txs[i].tx_hash # Null
                        /\ txs[i].relayed_at # Null

\* the rows of cycle c
RowsOf(c) == {i \in TxIds : txs[i].withdraw_cycle = c}

\* cycle c is not COMPLETED, none of its rows is in flight, and no call of the
\* driver changes anything: no processing call on a row that is not terminal,
\* whatever the gateway answers, no set_next_tx and no check_for_completion
Stuck(c) ==
    /\ cycles[c].status = CYCLE_PENDING
    /\ \A i \in RowsOf(c) : txs[i].status # PENDING
    /\ \A i \in RowsOf(c) : \A gw \in AllProcessAnswers :
           process_selector(txs, managers, i, gw, now) = txs
    /\ \A m \in Indices(managers) : set_next_tx(txs, managers, m) = managers
    /\ check_for_completion(cycles, txs, c) = cycles

\* C23: under a fair driver every cycle eventually reaches COMPLETED,
\* whatever the outcomes of its transactions are; so no cycle ever gets into
\* a state from which the calls of the driver can change nothing while the
\* cycle is not COMPLETED.
C23_CycleNeverStuck ==
    \A c \in Indices(cycles) : ~Stuck(c)

\* no processing call, on the row itself or on another row, changes the
\* status of a row that is in a terminal status
C24_ProcessingKeepsTerminal ==
    \A i \in TxIds :
        txs[i].status \in TerminalStatuses =>
            \A j \in TxIds : \A gw \in AllProcessAnswers :
                process_selector(txs, managers, j, gw, now)[i].status
                    = txs[i].status

\* C24: terminal statuses are absorbing under processing: once a row is
\* COMPLETED, SKIPPED, FAILED, SENT_TX_NOT_FOUND or ERC20_BALANCE_TOO_LOW, no
\* processing call on it or on another row (the gas refill's marking of the
\* account's token withdrawals as SKIPPED included) and no set_next_tx call
\* changes its status; only a confirmation call may.
C24_TerminalAbsorbing ==
    /\ []C24_ProcessingKeepsTerminal
    /\ [][\A i \in TxIds :
            (txs[i].status \in TerminalStatuses
                /\ txs'[i].status # txs[i].status)
            => \E gw \in ConfirmAnswers :
                   txs' = confirm_selector(txs, i, gw, now)]_vars

\* a row that was broadcast and confirmed, beside another row on which a
\* processing call still changes something
C24_Witness ==
    \E i \in TxIds :
        /\ txs[i].status = COMPLETED
        /\ txs[i].tx_hash # Null
        /\ \E j \in TxIds \ {i} : \E gw \in AllProcessAnswers :
               process_selector(txs, managers, j, gw, now) # txs

\* C25: each withdrawal transaction is broadcast at most once, also when two
\* workers of the driver are inside process_selector on the same transaction
\* and their checks, broadcasts and status writes interleave
C25_BroadcastAtMostOnce ==
    \A i \in DOMAIN broadcasts : broadcasts[i] <= 1

====
